---- MODULE Spec2Model ----
(***************************************************************************)
(* A model of src/task_manager.py: the TaskManager class (the task store)  *)
(* and the backing file tasks.json it loads and rewrites.                  *)
(*                                                                         *)
(* The backing file is modelled by its existence, its read permission,     *)
(* whether its bytes decode as UTF-8, and its text as a sequence of JSON   *)
(* tokens.  json.dump and json.load are modelled as a serializer to, and a *)
(* parser from, that token sequence.  datetime.now() is a read of a clock  *)
(* that never goes backwards; a timestamp is the clock value read.         *)
(*                                                                         *)
(* One step is one call of a TaskManager method, or the construction of a  *)
(* TaskManager by a new invocation of the tool.  An exception that escapes *)
(* a call ends the invocation (main catches nothing): the next step is a   *)
(* construction.                                                           *)
(*                                                                         *)
(* "\E r \in {e} : ..." names the value of e, evaluated once.              *)
(***************************************************************************)
EXTENDS Integers, Sequences, FiniteSets, TLC

\* ------------------------------------------------------------- bounds
MaxTasks == 2
MaxClock == 1

\* Descriptions given on the command line.  The last one stands for a
\* description holding a lone surrogate (an argv byte that is not UTF-8,
\* decoded by Python with surrogateescape), which UTF-8 cannot encode.
Unencodable == {"udcff"}
Descriptions == {"a", "b"} \cup Unencodable

\* src/task_manager.py:63
valid_statuses == {"pendiente", "en_progreso", "terminada"}
\* A status outside the enumeration ("done" is the spec's name, not the code's).
StatusArgs == valid_statuses \cup {"done"}

\* Ids a caller may pass: those add_task can assign, and one more.
IdArgs == 1..(MaxTasks + 1)

\* The largest integer a file of the model holds (an id or a timestamp).
MaxInt == MaxTasks + MaxClock + 1

VARIABLES
    tasks,       \* self.tasks: the items, in order
    tasks_type,  \* the Python type of self.tasks: "list", or "dict" when the file held {}
    file,        \* the backing file self.filename
    clock,       \* the last value datetime.now() returned
    pc,          \* "ready": a TaskManager is constructed; "crashed": an exception escaped
    disk,        \* the environment: "sound", or "failing" when a write may fail
    op,          \* the last operation called
    outcome,     \* what the last call reported
    saves,       \* how many times the last call called save_tasks
    shown,       \* the tasks the last listing selected for printing
    adds_only,   \* history: the store was loaded empty and has seen only successful add_task calls since
    assigned,    \* history: the ids add_task has assigned so far
    procs        \* two invocations of the tool that run at the same time (SpecRace)

vars == <<tasks, tasks_type, file, disk, clock, pc, op, outcome, saves, shown, adds_only, assigned, procs>>

Min(S) == CHOOSE x \in S : \A y \in S : x <= y

\* ------------------------------------------------------------- the file
NoFile == [exists |-> FALSE, readable |-> TRUE, decodable |-> TRUE, text |-> <<>>]

\* open(self.filename, 'w') then write: the file exists afterwards with this text;
\* its permissions are those it had.
Written(f, text) ==
    [exists |-> TRUE, readable |-> f.readable, decodable |-> TRUE, text |-> text]

\* ------------------------------------------------------------- JSON
IntToken(n) == ToString(n)
IsIntToken(s) == \E n \in 0..MaxInt : IntToken(n) = s
ParseInt(s) == CHOOSE n \in 0..MaxInt : IntToken(n) = s

\* Mutant of TaskTokens: created_at written in the place of updated_at too.
TaskTokensOneStamp(t) ==
    <<"{", IntToken(t.id), t.description, t.status,
      IntToken(t.created_at), IntToken(t.created_at), "}">>

\* One task record, as json.dump writes it: the five fields in insertion order.
TaskTokens(t) ==
    <<"{", IntToken(t.id), t.description, t.status,
      IntToken(t.created_at), IntToken(t.updated_at), "}">>

RECURSIVE Chunks(_)
Chunks(items) ==
    IF items = <<>> THEN <<>> ELSE TaskTokens(Head(items)) \o Chunks(Tail(items))

\* json.dump(self.tasks, f, indent=2, ensure_ascii=False): the text it produces.
json_dump(type, items) ==
    IF type = "dict" THEN <<"{", "}">> ELSE <<"[">> \o Chunks(items) \o <<"]">>

ObjectAt(text, k) ==
    LET o == 1 + 7 * (k - 1) IN
    [id          |-> ParseInt(text[o + 2]),
     description |-> text[o + 3],
     status      |-> text[o + 4],
     created_at  |-> ParseInt(text[o + 5]),
     updated_at  |-> ParseInt(text[o + 6])]

WellFormedObjectAt(text, k) ==
    LET o == 1 + 7 * (k - 1) IN
    /\ text[o + 1] = "{"
    /\ IsIntToken(text[o + 2])
    /\ text[o + 3] \notin {"{", "}", "[", "]"}
    /\ text[o + 4] \notin {"{", "}", "[", "]"}
    /\ IsIntToken(text[o + 5])
    /\ IsIntToken(text[o + 6])
    /\ text[o + 7] = "}"

\* json.load(f): [ok |-> FALSE] is json.JSONDecodeError.
json_load(text) ==
    IF text = <<"{", "}">>
    THEN [ok |-> TRUE, type |-> "dict", items |-> <<>>]
    ELSE IF /\ Len(text) >= 2
            /\ text[1] = "["
            /\ text[Len(text)] = "]"
            /\ (Len(text) - 2) % 7 = 0
            /\ \A k \in 1..((Len(text) - 2) \div 7) : WellFormedObjectAt(text, k)
         THEN [ok |-> TRUE, type |-> "list",
               items |-> [k \in 1..((Len(text) - 2) \div 7) |-> ObjectAt(text, k)]]
         ELSE [ok |-> FALSE, type |-> "list", items |-> <<>>]

\* ------------------------------------------------------------- load / save
\* TaskManager.load_tasks: what it returns, or that an exception escapes it.
load_tasks(f) ==
    IF ~f.exists
    THEN [raised |-> FALSE, type |-> "list", items |-> <<>>]
    ELSE IF ~f.readable \/ ~f.decodable
    THEN [raised |-> TRUE, type |-> "list", items |-> <<>>]
    ELSE LET v == json_load(f.text) IN
         IF v.ok
         THEN [raised |-> FALSE, type |-> v.type, items |-> v.items]
         ELSE [raised |-> FALSE, type |-> "list", items |-> <<>>]

\* What the environment does to a write: on a failing disk the open may fail
\* (permission denied) or the write may (disk full).
IoOutcomes(d) == IF d = "failing" THEN {"ok", "open_fails", "write_fails"} ELSE {"ok"}

\* Where a failing write may stop: how many tokens of the text have reached the
\* file by then.  Every strict prefix of the text is one JSON cannot parse, so
\* the shortest and the longest stand for all of them.
PartialWrites(text) == {0, Len(text) - 1}

\* Mutant of save_tasks: the file opened with 'a', so the text is appended to
\* what the file held.
save_tasks_append(type, items, f, io, n) ==
    [file |-> Written(f, f.text \o json_dump(type, items)), raised |-> FALSE]

\* Mutant of save_tasks: the write keeps the tasks the file holds and adds the
\* ones of the list that the file lacks.
save_tasks_merge(type, items, f, io, n) ==
    LET old == load_tasks(f).items
        fresh == SelectSeq(items, LAMBDA t : \A i \in 1..Len(old) : old[i] # t)
    IN  [file |-> Written(f, json_dump(type, old \o fresh)), raised |-> FALSE]

\* TaskManager.save_tasks on the value (type, items): the file afterwards, and
\* whether an exception escapes.  io is the environment's choice; on a failing
\* write the first n tokens have reached the file.
save_tasks(type, items, f, io, n) ==
    IF io = "open_fails"
    THEN [file |-> f, raised |-> TRUE]
    ELSE IF io = "write_fails"
    THEN [file |-> Written(f, SubSeq(json_dump(type, items), 1, n)), raised |-> TRUE]
    ELSE IF \E i \in 1..Len(items) : items[i].description \in Unencodable
    THEN \* UnicodeEncodeError at the first such description: the tokens before
         \* it have been written
         LET i == Min({k \in 1..Len(items) : items[k].description \in Unencodable})
         IN  [file |-> Written(f, SubSeq(json_dump(type, items), 1, 7 * (i - 1) + 3)),
              raised |-> TRUE]
    ELSE [file |-> Written(f, json_dump(type, items)), raised |-> FALSE]

\* The tail of every mutating operation: self.save_tasks() on the list as just
\* mutated (tasks'), then the success message, unless the write raises.
Persist ==
    \E io \in IoOutcomes(disk) :
      \E n \in (IF io = "write_fails" THEN PartialWrites(json_dump(tasks_type, tasks')) ELSE {0}) :
        \E r \in {save_tasks(tasks_type, tasks', file, io, n)} :
        /\ file' = r.file
        /\ pc' = IF r.raised THEN "crashed" ELSE "ready"
        /\ outcome' = IF r.raised THEN "raised" ELSE "ok"
        /\ saves' = 1

\* datetime.now(): a value no earlier than the last one read.
Now(after) == {t \in after..(after + 1) : t <= MaxClock}

\* ------------------------------------------------------------- construction
\* TaskManager.__init__: a new invocation of the tool loads the file.
Construct ==
    \E r \in {load_tasks(file)} :
    /\ tasks' = r.items
    /\ tasks_type' = r.type
    /\ pc' = IF r.raised THEN "crashed" ELSE "ready"
    /\ outcome' = IF r.raised THEN "raised" ELSE "ok"
    /\ op' = "init"
    /\ saves' = 0
    /\ shown' = <<>>
    /\ adds_only' = (~r.raised /\ r.type = "list" /\ r.items = <<>>)
    /\ UNCHANGED <<file, disk, clock, assigned, procs>>


\* ------------------------------------------------------------- helpers of the operations
\* Mutant of next_id: the + 1 forgotten.
next_id_from_zero(items) == Len(items)

\* "id": len(self.tasks) + 1
next_id(items) == Len(items) + 1

\* Mutant of FirstMatch: when the loop ends without a match, the last task it
\* looked at is taken for the match.
FirstMatchOrLast(items, task_id) ==
    IF \E i \in 1..Len(items) : items[i].id = task_id
    THEN Min({i \in 1..Len(items) : items[i].id = task_id})
    ELSE Len(items)

\* for task in self.tasks: if task["id"] == task_id: the index of the first
\* match, 0 when the loop ends without one.
FirstMatch(items, task_id) ==
    IF \E i \in 1..Len(items) : items[i].id = task_id
    THEN Min({i \in 1..Len(items) : items[i].id = task_id})
    ELSE 0

\* Mutant of Remove: del self.tasks[i:], the tail going with the match.
RemoveFrom(items, i) == SubSeq(items, 1, i - 1)

\* del self.tasks[i]
Remove(items, i) == SubSeq(items, 1, i - 1) \o SubSeq(items, i + 1, Len(items))

\* Mutant of InvalidStatus: the check left out.
InvalidStatusNever(status) == FALSE

\* status not in valid_statuses
InvalidStatus(status) == status \notin valid_statuses

\* Mutant of Select: the matches collected in reverse order.
RECURSIVE SelectReversed(_, _)
SelectReversed(items, status) ==
    IF items = <<>> THEN <<>>
    ELSE IF Head(items).status = status
         THEN SelectReversed(Tail(items), status) \o <<Head(items)>>
         ELSE SelectReversed(Tail(items), status)

\* [task for task in self.tasks if task["status"] == status]
RECURSIVE Select(_, _)
Select(items, status) ==
    IF items = <<>> THEN <<>>
    ELSE IF Head(items).status = status
         THEN <<Head(items)>> \o Select(Tail(items), status)
         ELSE Select(Tail(items), status)

\* Mutant of new_task: the two clock reads taken in the other order.
new_task_stamps_swapped(items, description, t1, t2) ==
    [id          |-> next_id(items),
     description |-> description,
     status      |-> "pendiente",
     created_at  |-> t2,
     updated_at  |-> t1]

\* task = {...}: the dict add_task builds; t1 and t2 are its two clock reads,
\* in the order the dict display evaluates them.
new_task(items, description, t1, t2) ==
    [id          |-> next_id(items),
     description |-> description,
     status      |-> "pendiente",
     created_at  |-> t1,
     updated_at  |-> t2]

\* Mutant of with_description: the status reset as well.
with_description_and_reset(items, i, description, t) ==
    [items EXCEPT ![i].description = description,
                  ![i].status = "pendiente",
                  ![i].updated_at = t]

\* task["description"] = description; task["updated_at"] = now, on the i-th task.
with_description(items, i, description, t) ==
    [items EXCEPT ![i].description = description, ![i].updated_at = t]

\* task["status"] = status; task["updated_at"] = now, on the i-th task.
with_status(items, i, status, t) ==
    [items EXCEPT ![i].status = status, ![i].updated_at = t]

\* A call that ends without touching the list, the file or the clock.
Reports(what) ==
    /\ outcome' = what
    /\ saves' = 0
    /\ UNCHANGED <<tasks, file, clock, pc, adds_only>>

\* ------------------------------------------------------------- the operations
add_task(description) ==
    /\ pc = "ready"
    /\ Len(tasks) < MaxTasks
    /\ \E t1 \in Now(clock) : \E t2 \in Now(t1) :
         LET task == new_task(tasks, description, t1, t2)
         IN  /\ clock' = t2
             /\ op' = "add"
             /\ IF tasks_type = "list"
                THEN /\ tasks' = Append(tasks, task)
                     /\ Persist
                     /\ assigned' = assigned \cup {task.id}
                     /\ adds_only' = (adds_only /\ outcome' = "ok")
                ELSE \* a dict has no append: AttributeError escapes
                     /\ pc' = "crashed"
                     /\ outcome' = "raised"
                     /\ saves' = 0
                     /\ adds_only' = FALSE
                     /\ UNCHANGED <<tasks, file, assigned>>
    /\ shown' = <<>>
    /\ UNCHANGED <<tasks_type, disk, procs>>

update_task(task_id, description) ==
    /\ pc = "ready"
    /\ op' = "update"
    /\ \E i \in {FirstMatch(tasks, task_id)} :
         IF i = 0
         THEN Reports("not_found")
         ELSE \E t \in Now(clock) :
                /\ clock' = t
                /\ tasks' = with_description(tasks, i, description, t)
                /\ Persist
                /\ adds_only' = FALSE
    /\ shown' = <<>>
    /\ UNCHANGED <<tasks_type, disk, assigned, procs>>

delete_task(task_id) ==
    /\ pc = "ready"
    /\ op' = "delete"
    /\ \E i \in {FirstMatch(tasks, task_id)} :
         IF i = 0
         THEN Reports("not_found")
         ELSE /\ tasks' = Remove(tasks, i)
              /\ Persist
              /\ adds_only' = FALSE
              /\ UNCHANGED clock
    /\ shown' = <<>>
    /\ UNCHANGED <<tasks_type, disk, assigned, procs>>

update_status(task_id, status) ==
    /\ pc = "ready"
    /\ op' = "status"
    /\ IF InvalidStatus(status)
       THEN Reports("invalid_status")
       ELSE \E i \in {FirstMatch(tasks, task_id)} :
              IF i = 0
              THEN Reports("not_found")
              ELSE \E t \in Now(clock) :
                     /\ clock' = t
                     /\ tasks' = with_status(tasks, i, status, t)
                     /\ Persist
                     /\ adds_only' = FALSE
    /\ shown' = <<>>
    /\ UNCHANGED <<tasks_type, disk, assigned, procs>>

\* Mutant of Lists: the listing marks what it prints as seen and saves.
ListsAndMarks(name, selected) ==
    /\ pc = "ready"
    /\ op' = name
    /\ shown' = selected
    /\ tasks' = [i \in 1..Len(tasks) |->
                   IF \E k \in 1..Len(selected) : selected[k] = tasks[i]
                   THEN [tasks[i] EXCEPT !.updated_at = clock]
                   ELSE tasks[i]]
    /\ Persist
    /\ UNCHANGED <<tasks_type, disk, assigned, clock, adds_only, procs>>

\* A listing: prints the selected tasks, touches nothing else.
Lists(name, selected) ==
    /\ pc = "ready"
    /\ op' = name
    /\ shown' = selected
    /\ Reports("ok")
    /\ UNCHANGED <<tasks_type, disk, assigned, procs>>

list_all_tasks == Lists("list_all", tasks)
list_in_progress_tasks == Lists("list_in_progress", Select(tasks, "en_progreso"))
list_pending_tasks == Lists("list_pending", Select(tasks, "pendiente"))
list_completed_tasks == Lists("list_completed", Select(tasks, "terminada"))

\* ------------------------------------------------------------- two invocations at once
\* Two invocations of the tool (main) running against the same backing file.
\* Each constructs its own TaskManager (load_tasks), calls one mutating
\* operation on it, and exits.  A racer's record: pc ("start", "loaded",
\* "done", "crashed"), its self.tasks and their type, what it loaded, the
\* operation it ran and what that reported, how many racers had saved when it
\* loaded (saw), and its place in the order of the saves (rank, 0: none).
Racers == {1, 2}

Idle ==
    [pc |-> "start", tasks |-> <<>>, type |-> "list", loaded |-> <<>>,
     op |-> "none", outcome |-> "none", saw |-> 0, rank |-> 0]

Saved == {q \in Racers : procs[q].rank > 0}

RaceFrame == UNCHANGED <<tasks, tasks_type, disk, pc, op, outcome, saves, shown, adds_only, assigned>>

\* task_manager = TaskManager() in main: the racer loads the file as it is now.
racer_load(p) ==
    /\ procs[p].pc = "start"
    /\ \E r \in {load_tasks(file)} :
         procs' = [procs EXCEPT ![p] =
                     [@ EXCEPT !.pc = IF r.raised THEN "crashed" ELSE "loaded",
                               !.tasks = r.items,
                               !.type = r.type,
                               !.loaded = r.items,
                               !.saw = Cardinality(Saved)]]
    /\ UNCHANGED <<file, clock>>
    /\ RaceFrame

\* The racer's operation found nothing to change: it prints and returns.
RacerReports(p, name, what) ==
    /\ procs' = [procs EXCEPT ![p] = [@ EXCEPT !.pc = "done", !.op = name, !.outcome = what]]
    /\ UNCHANGED <<file, clock>>

\* The racer's operation has mutated its list to items: self.save_tasks(),
\* then the success message, unless the write raises.
RacerPersists(p, name, items) ==
    \E io \in IoOutcomes(disk) :
      \E n \in (IF io = "write_fails" THEN PartialWrites(json_dump(procs[p].type, items)) ELSE {0}) :
        \E r \in {save_tasks(procs[p].type, items, file, io, n)} :
        /\ file' = r.file
        /\ procs' = [procs EXCEPT ![p] =
                       [@ EXCEPT !.pc = IF r.raised THEN "crashed" ELSE "done",
                                 !.tasks = items,
                                 !.op = name,
                                 !.outcome = IF r.raised THEN "raised" ELSE "ok",
                                 !.rank = IF r.raised THEN 0 ELSE Cardinality(Saved) + 1]]

racer_add_task(p, description) ==
    /\ procs[p].pc = "loaded"
    /\ procs[p].type = "list"
    /\ Len(procs[p].tasks) < MaxTasks
    /\ \E t1 \in Now(clock) : \E t2 \in Now(t1) :
         /\ clock' = t2
         /\ RacerPersists(p, "add", Append(procs[p].tasks,
                                           new_task(procs[p].tasks, description, t1, t2)))
    /\ RaceFrame

racer_update_task(p, task_id, description) ==
    /\ procs[p].pc = "loaded"
    /\ \E i \in {FirstMatch(procs[p].tasks, task_id)} :
         IF i = 0
         THEN RacerReports(p, "update", "not_found")
         ELSE \E t \in Now(clock) :
                /\ clock' = t
                /\ RacerPersists(p, "update", with_description(procs[p].tasks, i, description, t))
    /\ RaceFrame

racer_delete_task(p, task_id) ==
    /\ procs[p].pc = "loaded"
    /\ \E i \in {FirstMatch(procs[p].tasks, task_id)} :
         IF i = 0
         THEN RacerReports(p, "delete", "not_found")
         ELSE /\ RacerPersists(p, "delete", Remove(procs[p].tasks, i))
              /\ UNCHANGED clock
    /\ RaceFrame

racer_update_status(p, task_id, status) ==
    /\ procs[p].pc = "loaded"
    /\ IF InvalidStatus(status)
       THEN RacerReports(p, "status", "invalid_status")
       ELSE \E i \in {FirstMatch(procs[p].tasks, task_id)} :
              IF i = 0
              THEN RacerReports(p, "status", "not_found")
              ELSE \E t \in Now(clock) :
                     /\ clock' = t
                     /\ RacerPersists(p, "status", with_status(procs[p].tasks, i, status, t))
    /\ RaceFrame

NextRace ==
    \E p \in Racers :
      \/ racer_load(p)
      \/ \E d \in Descriptions : racer_add_task(p, d)
      \/ \E id \in IdArgs : \E d \in Descriptions : racer_update_task(p, id, d)
      \/ \E id \in IdArgs : racer_delete_task(p, id)
      \/ \E id \in IdArgs : \E s \in StatusArgs : racer_update_status(p, id, s)

\* ------------------------------------------------------------- specifications
\* The state after TaskManager.__init__ loaded the file f.
Loaded(f) ==
    LET r == load_tasks(f) IN
    /\ file = f
    /\ disk \in {"sound", "failing"}
    /\ tasks = r.items
    /\ tasks_type = r.type
    /\ pc = IF r.raised THEN "crashed" ELSE "ready"
    /\ outcome = IF r.raised THEN "raised" ELSE "ok"
    /\ op = "init"
    /\ clock = 0
    /\ saves = 0
    /\ shown = <<>>
    /\ adds_only = (~r.raised /\ r.type = "list" /\ r.items = <<>>)
    /\ assigned = {}
    /\ procs = [p \in Racers |-> Idle]

\* An empty store: the first invocation, with no backing file yet, on a disk
\* whose writes all succeed.
Init == Loaded(NoFile) /\ disk = "sound"

Next ==
    \/ Construct
    \/ \E d \in Descriptions : add_task(d)
    \/ \E id \in IdArgs : \E d \in Descriptions : update_task(id, d)
    \/ \E id \in IdArgs : delete_task(id)
    \/ \E id \in IdArgs : \E s \in StatusArgs : update_status(id, s)
    \/ list_all_tasks
    \/ list_in_progress_tasks
    \/ list_pending_tasks
    \/ list_completed_tasks

Spec == Init /\ [][Next]_vars

\* Files the tool may find when it starts: whatever the user, or an earlier
\* failed write, left there.
StrayTask == [id |-> 1, description |-> "a", status |-> "done", created_at |-> 0, updated_at |-> 0]
InitialFiles ==
    { NoFile,
      [exists |-> TRUE, readable |-> FALSE, decodable |-> TRUE,  text |-> <<"[", "]">>],
      [exists |-> TRUE, readable |-> TRUE,  decodable |-> FALSE, text |-> <<>>],
      [exists |-> TRUE, readable |-> TRUE,  decodable |-> TRUE,  text |-> <<>>],
      [exists |-> TRUE, readable |-> TRUE,  decodable |-> TRUE,  text |-> <<"[">>],
      [exists |-> TRUE, readable |-> TRUE,  decodable |-> TRUE,  text |-> <<"{", "}">>],
      [exists |-> TRUE, readable |-> TRUE,  decodable |-> TRUE,  text |-> <<"[", "]">>],
      [exists |-> TRUE, readable |-> TRUE,  decodable |-> TRUE,
       text |-> json_dump("list", <<StrayTask>>)] }

InitAnyFile == \E f \in InitialFiles : Loaded(f)

SpecAnyFile == InitAnyFile /\ [][Next]_vars

\* An empty store on a disk whose writes may fail.
InitFailing == Loaded(NoFile) /\ disk = "failing"

SpecFailing == InitFailing /\ [][Next]_vars

\* Two invocations start together, on a disk whose writes all succeed, with no
\* backing file yet or with the file an earlier add_task('a') wrote.
SeedTask == [id |-> 1, description |-> "a", status |-> "pendiente", created_at |-> 0, updated_at |-> 0]
RaceFiles == {NoFile, Written(NoFile, json_dump("list", <<SeedTask>>))}

InitRace == \E f \in RaceFiles : Loaded(f) /\ disk = "sound"

SpecRace == InitRace /\ [][NextRace]_vars


\* ------------------------------------------------------------- properties
Ids(items) == {items[i].id : i \in 1..Len(items)}

Mutations == {"add", "update", "delete", "status"}

\* C1: in every state reachable from an empty store, the ids of the tasks held
\* in the store are pairwise distinct.
C1_IdsPairwiseDistinct ==
    \A i, j \in 1..Len(tasks) : i # j => tasks[i].id # tasks[j].id

\* C2: an id is never reused: an add_task that appends a task gives it an id
\* that no earlier add_task has assigned, also when that task was deleted since.
C2_IdNeverReused ==
    [][(op' = "add" /\ Len(tasks') = Len(tasks) + 1)
         => tasks'[Len(tasks')].id \notin assigned]_vars

\* C3: starting from an empty store, N add_task calls with no other mutation
\* in between yield tasks whose ids are exactly 1..N, in insertion order.
C3_AddsNumberFromOne ==
    adds_only => \A i \in 1..Len(tasks) : tasks[i].id = i

C3_Witness == adds_only /\ Len(tasks) = MaxTasks /\ op = "add"

\* C4: a mutation is all-or-nothing: after add_task, update_task, update_status
\* or delete_task has ended, also by a failing write, what the backing file
\* loads to is the in-memory task list.
C4_AllOrNothing ==
    op \in Mutations => load_tasks(file).items = tasks

\* What a new invocation would load is what this one holds in memory.
InSync ==
    LET r == load_tasks(file) IN
    ~r.raised /\ r.type = tasks_type /\ r.items = tasks

\* C5: while no write fails, after every completed operation loading the
\* backing file yields exactly the in-memory task list, and an operation that
\* changes the in-memory list has called save_tasks exactly once.
C5_FileFollowsMemory ==
    /\ [](pc = "ready" => InSync)
    /\ [][(op' # "init" /\ tasks' # tasks) => saves' = 1]_vars

C5_Witness ==
    /\ pc = "ready" /\ op = "status" /\ outcome = "ok" /\ saves = 1
    /\ Len(tasks) = MaxTasks
    /\ file.text = json_dump("list", tasks)

\* C6: update_task, update_status with a valid status, and delete_task, called
\* with an id no task of the store has, report "not found", leave the task
\* list unchanged and do not write the backing file.  (Every step either has
\* that effect, or is no such call with an id outside the store's ids.)
C6_UnknownIdIsNotFound ==
    [][\/ outcome' = "not_found" /\ tasks' = tasks /\ file' = file /\ saves' = 0
       \/ op' \notin {"update", "status", "delete"}
       \/ \A id \in IdArgs \ Ids(tasks) :
            /\ \A d \in Descriptions : ~update_task(id, d)
            /\ \A s \in valid_statuses : ~update_status(id, s)
            /\ ~delete_task(id)]_vars

C6_Witness ==
    /\ outcome = "not_found" /\ op = "delete" /\ saves = 0
    /\ Len(tasks) = MaxTasks /\ file.text = json_dump("list", tasks)

\* C7: update_status with a status outside the enumeration is rejected for
\* every id, held by a task or not: the task list (so every status and
\* updated_at) is unchanged and the backing file is not written.  (Every step
\* either has that effect, or is no update_status call with such a status.)
C7_InvalidStatusRejected ==
    [][\/ outcome' = "invalid_status" /\ tasks' = tasks /\ file' = file /\ saves' = 0
       \/ op' # "status"
       \/ \A id \in IdArgs : \A s \in StatusArgs \ valid_statuses :
            ~update_status(id, s)]_vars

C7_Witness ==
    /\ outcome = "invalid_status" /\ op = "status" /\ saves = 0
    /\ Ids(tasks) = 1..MaxTasks

\* C8: in every reachable state, also the one load_tasks produces from
\* whatever the backing file holds, each task's status is in the enumeration.
C8_StatusInEnumeration ==
    \A i \in 1..Len(tasks) : tasks[i].status \in valid_statuses

\* The file is valid JSON, but not a list of task records.
NotATaskList(f) ==
    f.exists /\ f.readable /\ f.decodable /\ json_load(f.text).ok
    /\ json_load(f.text).type # "list"

\* C9: load_tasks lets no error escape and yields an empty list when the file
\* is missing, cannot be read, is not valid JSON, or is valid JSON that is not
\* a list of task records.
C9_LoadFailsOpen ==
    ( /\ op = "init"
      /\ \/ ~file.exists
         \/ ~file.readable
         \/ ~file.decodable
         \/ ~json_load(file.text).ok
         \/ NotATaskList(file) )
    => (outcome # "raised" /\ tasks_type = "list" /\ tasks = <<>>)

\* The k-th smallest element of a set of numbers.
Kth(S, k) == CHOOSE i \in S : Cardinality({j \in S : j <= i}) = k

\* r holds exactly the items whose status is s, each once, in the items' order.
IsSelection(r, items, s) ==
    LET M == {i \in 1..Len(items) : items[i].status = s} IN
    /\ Len(r) = Cardinality(M)
    /\ \A k \in 1..Len(r) : r[k] = items[Kth(M, k)]

\* C10: each status-filtered listing selects exactly the tasks of the full
\* list that have its status, each once, in the full list's order.
C10_ListingFiltersByStatus ==
    /\ op = "list_pending" => IsSelection(shown, tasks, "pendiente")
    /\ op = "list_in_progress" => IsSelection(shown, tasks, "en_progreso")
    /\ op = "list_completed" => IsSelection(shown, tasks, "terminada")

C10_Witness ==
    /\ op = "list_in_progress"
    /\ Len(tasks) = MaxTasks
    /\ Len(shown) = MaxTasks - 1
    /\ shown # <<>>


BothRaced ==
    \A p \in Racers : procs[p].pc = "done" /\ procs[p].outcome = "ok" /\ procs[p].saw = 0

FirstWriter == CHOOSE p \in Racers : procs[p].rank = 1
LastWriter == CHOOSE p \in Racers : procs[p].rank = 2

\* C12: when two invocations both load before either saves and both report
\* success, the file holds what the last writer computed from the list it
\* loaded, the first writer's save overwritten: after two add_task calls the
\* file holds one task more than was loaded, not two.
C12_LastWriterWins ==
    BothRaced =>
      /\ load_tasks(file).items = procs[LastWriter].tasks
      /\ (procs[1].op = "add" /\ procs[2].op = "add") =>
           Len(load_tasks(file).items) = Len(procs[LastWriter].loaded) + 1

\* Both racers added a task, and the task the first writer added is not in the file.
C12_Witness ==
    /\ BothRaced
    /\ procs[1].op = "add" /\ procs[2].op = "add"
    /\ LET lost == procs[FirstWriter].tasks[Len(procs[FirstWriter].tasks)] IN
       \A i \in 1..Len(load_tasks(file).items) : load_tasks(file).items[i] # lost


\* The step took the task at one position holding task_id out of the list, the
\* others keeping their values and their order.
RemovedOne(task_id) ==
    \E i \in 1..Len(tasks) :
      /\ tasks[i].id = task_id
      /\ Len(tasks') = Len(tasks) - 1
      /\ \A j \in 1..Len(tasks') : tasks'[j] = tasks[IF j < i THEN j ELSE j + 1]

ChangedOnlyAt(i, field) ==
    /\ Len(tasks') = Len(tasks)
    /\ \A j \in 1..Len(tasks) : j # i => tasks'[j] = tasks[j]
    /\ \A f \in {"id", "description", "status", "created_at"} \ {field} :
         tasks'[i][f] = tasks[i][f]

\* C14: a successful update_task changes only the description and updated_at of
\* the matched task, a successful update_status only its status and updated_at;
\* the task's id and created_at, and every other task, stay as they were.
\* (Every successful update step is the call for the id of one task and the
\* description, or status, that task has afterwards, and changed nothing else.)
C14_UpdatesTouchTheirFieldOnly ==
    [][\/ outcome' # "ok"
       \/ op' \notin {"update", "status"}
       \/ /\ op' = "update"
          /\ \E i \in 1..Len(tasks) :
               /\ ChangedOnlyAt(i, "description")
               /\ update_task(tasks[i].id, tasks'[i].description)
       \/ /\ op' = "status"
          /\ \E i \in 1..Len(tasks) :
               /\ ChangedOnlyAt(i, "status")
               /\ update_status(tasks[i].id, tasks'[i].status)]_vars

\* A successful update of the description of one of MaxTasks tasks whose status
\* had been changed before: the status is still the changed one.
C14_Witness ==
    /\ op = "update" /\ outcome = "ok"
    /\ Len(tasks) = MaxTasks
    /\ \E i \in 1..Len(tasks) :
         /\ tasks[i].status # "pendiente"
         /\ tasks[i].description = "b"
         /\ tasks[i].updated_at > tasks[i].created_at


ListOps == {"list_all", "list_in_progress", "list_pending", "list_completed"}

\* C15: the listing operations are read-only: a listing step leaves the task
\* list and the backing file unchanged and does not save; the same listing
\* called again right after a listing shows the same result; list_all shows
\* every task in insertion order, a filtered listing a selection in that order.
C15_ListingsReadOnly ==
    [][op' \in ListOps =>
         /\ tasks' = tasks /\ file' = file /\ saves' = 0
         /\ (op = op' => shown' = shown)
         /\ (op' = "list_all" => shown' = tasks)
         /\ \E st \in valid_statuses \cup {"any"} :
              IF st = "any" THEN shown' = tasks ELSE IsSelection(shown', tasks, st)]_vars

\* list_all right after a listing of a full store of tasks in different states.
C15_Witness ==
    /\ op = "list_all" /\ shown = tasks /\ saves = 0
    /\ Len(tasks) = MaxTasks
    /\ tasks[1].status # tasks[MaxTasks].status
    /\ file.text = json_dump("list", tasks)


\* C16: after a successful delete_task(id) the store holds no task with that
\* id (so that a following update_task, update_status or delete_task with the
\* same id reports "not found").  (Every successful delete step for an id
\* leaves no task with that id.)
C16_DeletedIdIsGone ==
    [][\/ op' # "delete"
       \/ outcome' # "ok"
       \/ \A id \in IdArgs : ~delete_task(id) \/ id \notin Ids(tasks')]_vars


\* C17: with a clock that never goes backwards, every task in every reachable
\* state has created_at <= updated_at, and each successful update_task or
\* update_status leaves the updated_at of the matched task (of every task) no
\* earlier than it was.
C17_StampsOrdered ==
    /\ [](\A i \in 1..Len(tasks) : tasks[i].created_at <= tasks[i].updated_at)
    /\ [][(op' \in {"update", "status"} /\ outcome' = "ok") =>
            /\ Len(tasks') = Len(tasks)
            /\ \A i \in 1..Len(tasks) : tasks'[i].updated_at >= tasks[i].updated_at]_vars

\* A status change later than the creation, next to a task whose two stamps
\* were read on different ticks of the clock.
C17_Witness ==
    /\ op = "status" /\ outcome = "ok"
    /\ Len(tasks) = MaxTasks
    /\ \E i \in 1..Len(tasks) :
         tasks[i].status # "pendiente" /\ tasks[i].created_at < tasks[i].updated_at
    /\ clock = MaxClock

====
